---------------------------- MODULE Spec2Model ----------------------------
(***************************************************************************)
(* A model of src/modules/module.py: the helper functions of the mortality *)
(* statistics exploration module (cat_var, cause_types, cause_code,        *)
(* cause_name, row_filter, nrow_filter, groupby_sum, pivot_table).         *)
(*                                                                         *)
(* The functions are pure.  Each specification below draws the arguments   *)
(* of a call from bounded sets and has one action per function, which      *)
(* stores the function's result in `out` under the function's name.        *)
(*                                                                         *)
(* Conventions.                                                            *)
(*  - A Python str is a sequence of one-character strings.                 *)
(*  - A result is a record [ok, val]: ok = FALSE is a raised exception     *)
(*    and val then names it.                                               *)
(*  - A DataFrame is a sequence of rows; a row is a record holding its     *)
(*    index label (field "idx") and one field per column.                  *)
(*  - A missing categorical value (NaN / None) is the string "NaN".        *)
(*  - The death count "Total" of a row is a number, never missing.         *)
(*  - sort_values is called with its default kind, 'quicksort', which      *)
(*    numpy documents as not stable: the order of rows with equal keys is  *)
(*    therefore a nondeterministic choice, and a function that sorts       *)
(*    denotes the SET of frames it may return.  (numpy's scalar quicksort  *)
(*    sorts up to 17 elements by insertion and reorders equal keys from 18 *)
(*    on; its vectorised sorts reorder them at any length.  The tables of  *)
(*    the model are short, and the choice stands for what the sort does to *)
(*    tables of the size of the mortality data.)                           *)
(***************************************************************************)
EXTENDS Integers, Sequences, FiniteSets, TLC

VARIABLES label, df, args, out

vars == <<label, df, args, out>>

(***************************************************************************)
(* Bounds of the model.                                                    *)
(***************************************************************************)
MaxLen == 5

MaxRows == 2

MaxTotal == 2

(***************************************************************************)
(* Results and the bookkeeping of calls.                                   *)
(***************************************************************************)
Ok(v) == [ok |-> TRUE, val |-> v]

Raise(e) == [ok |-> FALSE, val |-> e]

NoCalls == [c \in {} |-> Raise("not called")]

NoArgs == [none |-> TRUE]

Called(f) == f \in DOMAIN out

Record(f, r) == (f :> r) @@ out

Range(s) == {s[i] : i \in 1..Len(s)}

(***************************************************************************)
(* Python strings.                                                         *)
(***************************************************************************)
Chars == {"1", "-", " ", "\t", "a"}

Digits == {"0", "1", "2", "3", "4", "5", "6", "7", "8", "9"}

Whitespace == {" ", "\t", "\n", "\r", "\f"}

Labels == UNION {[1..n -> Chars] : n \in 0..MaxLen}

\* str.strip(): drop the leading and the trailing whitespace characters.
RECURSIVE LStrip(_)
LStrip(s) ==
    IF s # <<>> /\ Head(s) \in Whitespace THEN LStrip(Tail(s)) ELSE s

RECURSIVE RStrip(_)
RStrip(s) ==
    IF s # <<>> /\ s[Len(s)] \in Whitespace
    THEN RStrip(SubSeq(s, 1, Len(s) - 1))
    ELSE s

Strip(s) == RStrip(LStrip(s))

\* text.split(" ", 1): at most one split, at the first space character.
SplitSpaceOnce(text) ==
    LET spaces == {i \in 1..Len(text) : text[i] = " "}
    IN  IF spaces = {}
        THEN <<text>>
        ELSE LET i == CHOOSE k \in spaces : \A m \in spaces : k <= m
             IN  <<SubSeq(text, 1, i - 1), SubSeq(text, i + 1, Len(text))>>

(***************************************************************************)
(* re.findall('\d+-\d+', cause): the non-overlapping matches, scanning     *)
(* from the left.                                                          *)
(***************************************************************************)
\* The end of the longest run of digits of s that starts at i (i - 1 if none).
RECURSIVE DigitRunEnd(_, _)
DigitRunEnd(s, i) ==
    IF i <= Len(s) /\ s[i] \in Digits THEN DigitRunEnd(s, i + 1) ELSE i - 1

\* The end of the match of \d+-\d+ that starts at i, 0 when there is none.
\* \d+ is greedy; a digit is never a hyphen, so giving digits back cannot
\* turn a failed match into a match.
MatchAt(s, i) ==
    LET e1 == DigitRunEnd(s, i)
    IN  IF e1 < i THEN 0
        ELSE IF e1 + 1 > Len(s) \/ s[e1 + 1] # "-" THEN 0
        ELSE LET e2 == DigitRunEnd(s, e1 + 2)
             IN  IF e2 < e1 + 2 THEN 0 ELSE e2

RECURSIVE FindAllFrom(_, _)
FindAllFrom(s, i) ==
    IF i > Len(s) THEN <<>>
    ELSE LET e == MatchAt(s, i)
         IN  IF e = 0
             THEN FindAllFrom(s, i + 1)
             ELSE <<SubSeq(s, i, e)>> \o FindAllFrom(s, e + 1)

FindAll(s) == FindAllFrom(s, 1)

\* A plausible slip: "multiple" read as more than one range token.
cause_types_several(cause) ==
    LET x == FindAll(cause)
    IN  IF Len(x) <= 1 THEN Ok("Single cause") ELSE Ok("Multiple causes")

cause_types(cause) ==
    LET x == FindAll(cause)
    IN  IF Len(x) = 0 THEN Ok("Single cause") ELSE Ok("Multiple causes")

\* A plausible slip: rsplit, which cuts at the last space.
cause_code_rsplit(text) ==
    LET spaces == {i \in 1..Len(text) : text[i] = " "}
    IN  IF spaces = {}
        THEN Ok(text)
        ELSE LET i == CHOOSE k \in spaces : \A m \in spaces : k >= m
             IN  Ok(SubSeq(text, 1, i - 1))

cause_code(text) == Ok(SplitSpaceOnce(text)[1])

\* A plausible slip: [-1] in place of [1], which never raises.
cause_name_last(text) ==
    LET parts == SplitSpaceOnce(text)
    IN  Ok(Strip(parts[Len(parts)]))

cause_name(text) ==
    LET parts == SplitSpaceOnce(text)
    IN  IF Len(parts) < 2
        THEN Raise("IndexError")
        ELSE Ok(Strip(parts[2]))

(***************************************************************************)
(* The specification of the cause-label functions.                         *)
(***************************************************************************)
InitText ==
    /\ label \in Labels
    /\ df = <<>>
    /\ args = NoArgs
    /\ out = NoCalls

CallCauseTypes ==
    /\ ~Called("cause_types")
    /\ out' = Record("cause_types", cause_types(label))
    /\ UNCHANGED <<label, df, args>>

CallCauseCode ==
    /\ ~Called("cause_code")
    /\ out' = Record("cause_code", cause_code(label))
    /\ UNCHANGED <<label, df, args>>

CallCauseName ==
    /\ ~Called("cause_name")
    /\ out' = Record("cause_name", cause_name(label))
    /\ UNCHANGED <<label, df, args>>

NextText == CallCauseTypes \/ CallCauseCode \/ CallCauseName

SpecText == InitText /\ [][NextText]_vars

(***************************************************************************)
(* Claims about the cause-label functions.                                 *)
(***************************************************************************)
HasWhitespace(s) == \E i \in 1..Len(s) : s[i] \in Whitespace

HasSpace(s) == \E i \in 1..Len(s) : s[i] = " "

AllDigits(s, a, b) == \A i \in a..b : s[i] \in Digits

\* s holds a substring made of one or more digits, a hyphen, one or more digits.
HasRangeToken(s) ==
    \E a \in 1..Len(s) : \E h \in (a + 1)..Len(s) : \E b \in (h + 1)..Len(s) :
        /\ AllDigits(s, a, h - 1)
        /\ s[h] = "-"
        /\ AllDigits(s, h + 1, b)

\* C10: cause_types returns "Multiple causes" exactly when the label holds a
\* digits-hyphen-digits substring (one such token is enough), and
\* "Single cause" otherwise; it returns nothing else and never raises.
C10_CauseTypesIffRangeToken ==
    Called("cause_types") =>
        /\ out["cause_types"].ok
        /\ out["cause_types"].val \in {"Single cause", "Multiple causes"}
        /\ out["cause_types"].val = "Multiple causes" <=> HasRangeToken(label)

\* A label with exactly one range token is classified "Multiple causes".
C10_Witness ==
    /\ Called("cause_types")
    /\ Len(FindAll(label)) = 1
    /\ out["cause_types"].val = "Multiple causes"

\* The two parts of a label cut at its first whitespace run.
FirstWhitespace(s) ==
    CHOOSE k \in 1..Len(s) :
        s[k] \in Whitespace /\ \A m \in 1..(k - 1) : s[m] \notin Whitespace

BeforeWhitespaceRun(s) == SubSeq(s, 1, FirstWhitespace(s) - 1)

AfterWhitespaceRun(s) == LStrip(SubSeq(s, FirstWhitespace(s), Len(s)))

\* C8 as stated: the label is cut at its first run of whitespace of any kind;
\* cause_code is the part before it, cause_name the trimmed part after it.
C8_SplitOnFirstWhitespaceRun ==
    HasWhitespace(label) =>
        /\ Called("cause_code") =>
               out["cause_code"] = Ok(BeforeWhitespaceRun(label))
        /\ Called("cause_name") =>
               out["cause_name"] = Ok(Strip(AfterWhitespaceRun(label)))

IsWhitespaceRun(s) == \A i \in 1..Len(s) : s[i] \in Whitespace

Trimmed(s) ==
    s = <<>> \/ (s[1] \notin Whitespace /\ s[Len(s)] \notin Whitespace)

\* C8 amended: the label is cut at its first space character (U+0020) only.
\* cause_code returns what precedes that space, verbatim (so it holds no
\* space, but may hold other whitespace); cause_name returns what follows
\* it with the leading and trailing whitespace removed.
C8_SplitOnFirstSpace ==
    HasSpace(label) =>
        /\ Called("cause_code") =>
               /\ out["cause_code"].ok
               /\ ~HasSpace(out["cause_code"].val)
               /\ \E rest \in {SubSeq(label, k, Len(label)) : k \in 1..(Len(label) + 1)} :
                      label = out["cause_code"].val \o <<" ">> \o rest
        /\ Called("cause_name") =>
               /\ out["cause_name"].ok
               /\ Trimmed(out["cause_name"].val)
               /\ \E k \in 1..Len(label) :
                      /\ label[k] = " "
                      /\ ~HasSpace(SubSeq(label, 1, k - 1))
                      /\ \E i \in (k + 1)..(Len(label) + 1) : \E j \in (i - 1)..Len(label) :
                             /\ IsWhitespaceRun(SubSeq(label, k + 1, i - 1))
                             /\ out["cause_name"].val = SubSeq(label, i, j)
                             /\ IsWhitespaceRun(SubSeq(label, j + 1, Len(label)))

\* Both functions have cut a label whose code holds a tab and whose name is
\* surrounded by whitespace.
C8_Witness ==
    /\ Called("cause_code")
    /\ Called("cause_name")
    /\ HasSpace(label)
    /\ out["cause_code"].val # <<>>
    /\ HasWhitespace(out["cause_code"].val)
    /\ out["cause_name"].ok
    /\ out["cause_name"].val # <<>>
    /\ Len(out["cause_code"].val) + 1 + Len(out["cause_name"].val) < Len(label)

\* C9 as stated: on a label without whitespace both functions raise.
C9_BothFailWithoutWhitespace ==
    ~HasWhitespace(label) =>
        /\ Called("cause_code") => ~out["cause_code"].ok
        /\ Called("cause_name") => ~out["cause_name"].ok

\* C9 amended: on a label without whitespace cause_name raises (IndexError)
\* and cause_code returns the whole label unchanged.
C9_NameFailsCodeReturnsLabel ==
    ~HasWhitespace(label) =>
        /\ Called("cause_code") => out["cause_code"] = Ok(label)
        /\ Called("cause_name") => out["cause_name"] = Raise("IndexError")

\* Both functions were applied to a non-empty label without whitespace.
C9_Witness ==
    /\ label # <<>>
    /\ ~HasWhitespace(label)
    /\ Called("cause_code")
    /\ Called("cause_name")
    /\ ~out["cause_name"].ok

(***************************************************************************)
(* DataFrames.  A row holds its index label in field "idx" and the columns *)
(* of the mortality table: the categorical variables "Sexo" and "Edad" and *)
(* the death count "Total".                                                *)
(***************************************************************************)
NaN == "NaN"

SexoValues == {"Hombres", "Mujeres", NaN}

EdadValues == {"0-4", "5-9"}

Totals == 1..MaxTotal

Cells == [Sexo : SexoValues, Edad : EdadValues, Total : Totals]

\* pd.DataFrame(data): the rows of data under a RangeIndex 0..n-1.
DataFrame(data) == [i \in 1..Len(data) |-> ("idx" :> i - 1) @@ data[i]]

InputFrames == {DataFrame(data) : data \in UNION {[1..n -> Cells] : n \in 0..MaxRows}}

\* The columns of a row, and the row without its index label.
ColumnsOf(row) == DOMAIN row \ {"idx"}

Data(row) == [c \in ColumnsOf(row) |-> row[c]]

\* The order of the values of a column: numbers by value, strings
\* lexicographically.
StringOrder == <<"0-4", "5-9", "Hombres", "Mujeres">>

NumericColumns == {"Total", "number_of_possible_values"}

SortKey(row, by) ==
    IF by \in NumericColumns
    THEN row[by]
    ELSE CHOOSE k \in 1..Len(StringOrder) : StringOrder[k] = row[by]

\* df[mask]: the rows whose mask is true, in order, under their old labels.
RECURSIVE BooleanMaskFrom(_, _, _)
BooleanMaskFrom(frame, mask, i) ==
    IF i > Len(frame) THEN <<>>
    ELSE (IF mask[i] THEN <<frame[i]>> ELSE <<>>)
             \o BooleanMaskFrom(frame, mask, i + 1)

BooleanMask(frame, mask) == BooleanMaskFrom(frame, mask, 1)

\* Series.isin(values)
isin(frame, column, values) ==
    [i \in 1..Len(frame) |-> frame[i][column] \in values]

Reorderings(frame) ==
    LET n == Len(frame)
    IN  {[i \in 1..n |-> frame[p[i]]] :
            p \in {q \in [1..n -> 1..n] : \A i, j \in 1..n : q[i] = q[j] => i = j}}

\* sort_values(by=by, ascending=False), kind='quicksort': every arrangement
\* of the rows with non-increasing keys is a possible outcome.
sort_values_ascending(frame, by) ==
    {s \in Reorderings(frame) :
        \A i, j \in 1..Len(s) : i < j => SortKey(s[i], by) <= SortKey(s[j], by)}

sort_values(frame, by) ==
    {s \in Reorderings(frame) :
        \A i, j \in 1..Len(s) : i < j => SortKey(s[i], by) >= SortKey(s[j], by)}

\* A plausible slip: reset_index() without drop=True, which keeps the old
\* labels as a column named "index" (or "level_0" when "index" is taken).
reset_index_keep(frame) ==
    [i \in 1..Len(frame) |->
        LET row == frame[i]
            name == IF "index" \in DOMAIN row THEN "level_0" ELSE "index"
        IN  (name :> row.idx) @@ [row EXCEPT !.idx = i - 1]]

\* reset_index(drop=True): the labels become 0..n-1.
reset_index(frame) ==
    [i \in 1..Len(frame) |-> [frame[i] EXCEPT !.idx = i - 1]]

\* A plausible slip: sorting from lowest to highest.
row_filter_ascending(frame, cat_var, cat_values) ==
    {reset_index(s) :
        s \in sort_values_ascending(
                 BooleanMask(frame, isin(frame, cat_var, cat_values)), "Total")}

row_filter(frame, cat_var, cat_values) ==
    {reset_index(s) :
        s \in sort_values(
                 BooleanMask(frame, isin(frame, cat_var, cat_values)), "Total")}

\* A plausible slip: the ~ forgotten.
nrow_filter_included(frame, cat_var, cat_values) ==
    row_filter(frame, cat_var, cat_values)

nrow_filter(frame, cat_var, cat_values) ==
    LET mask == isin(frame, cat_var, cat_values)
    IN  {reset_index(s) :
            s \in sort_values(
                     BooleanMask(frame, [i \in DOMAIN mask |-> ~mask[i]]), "Total")}

(***************************************************************************)
(* The specification of the row filters: row_filter and nrow_filter are    *)
(* called with the same arguments, and row_filter is called again on its   *)
(* own result.                                                             *)
(***************************************************************************)
FilterArgs ==
    [cat_var : {"Sexo"}, cat_values : SUBSET {"Hombres", NaN}]
        \cup [cat_var : {"Edad"}, cat_values : {{"0-4"}, {"0-4", "Hombres"}}]

InitFilter ==
    /\ label = <<>>
    /\ df \in InputFrames
    /\ args \in FilterArgs
    /\ out = NoCalls

CallRowFilter ==
    /\ ~Called("row_filter")
    /\ \E r \in row_filter(df, args.cat_var, args.cat_values) :
           out' = Record("row_filter", Ok(r))
    /\ UNCHANGED <<label, df, args>>

CallNrowFilter ==
    /\ ~Called("nrow_filter")
    /\ \E r \in nrow_filter(df, args.cat_var, args.cat_values) :
           out' = Record("nrow_filter", Ok(r))
    /\ UNCHANGED <<label, df, args>>

CallRowFilterAgain ==
    /\ Called("row_filter")
    /\ ~Called("row_filter_again")
    /\ \E r \in row_filter(out["row_filter"].val, args.cat_var, args.cat_values) :
           out' = Record("row_filter_again", Ok(r))
    /\ UNCHANGED <<label, df, args>>

NextFilter == CallRowFilter \/ CallNrowFilter \/ CallRowFilterAgain

SpecFilter == InitFilter /\ [][NextFilter]_vars

(***************************************************************************)
(* Claims about the row filters.                                           *)
(***************************************************************************)
\* How many rows of a frame hold the data d.
Count(frame, d) == Cardinality({i \in 1..Len(frame) : Data(frame[i]) = d})

SortedByTotal(frame) ==
    \A i \in 1..(Len(frame) - 1) : frame[i].Total >= frame[i + 1].Total

RangeIndex(frame) == \A i \in 1..Len(frame) : frame[i].idx = i - 1

\* C1: row_filter and nrow_filter partition the rows of the table.  A row
\* whose value in the column is in the list is in row_filter's result as
\* often as in the table and not in nrow_filter's; any other row is in
\* nrow_filter's result as often as in the table and not in row_filter's.
C1_FiltersPartitionRows ==
    (Called("row_filter") /\ Called("nrow_filter")) =>
        /\ Len(out["row_filter"].val) + Len(out["nrow_filter"].val) = Len(df)
        /\ \A d \in Cells :
               /\ Count(out["row_filter"].val, d) =
                      IF d[args.cat_var] \in args.cat_values THEN Count(df, d) ELSE 0
               /\ Count(out["nrow_filter"].val, d) =
                      IF d[args.cat_var] \in args.cat_values THEN 0 ELSE Count(df, d)

\* Both filters kept a row, and the row nrow_filter kept has no value in
\* the column.
C1_Witness ==
    /\ Called("row_filter")
    /\ Called("nrow_filter")
    /\ out["row_filter"].val # <<>>
    /\ out["nrow_filter"].val # <<>>
    /\ out["nrow_filter"].val[1][args.cat_var] = NaN

FilterResultShape(f) ==
    Called(f) =>
        /\ out[f].ok
        /\ SortedByTotal(out[f].val)
        /\ RangeIndex(out[f].val)
        /\ \A i \in 1..Len(out[f].val) :
               /\ ColumnsOf(out[f].val[i]) = {"Sexo", "Edad", "Total"}
               /\ \E k \in 1..Len(df) : Data(df[k]) = Data(out[f].val[i])

\* C5: the results of row_filter and nrow_filter are in non-increasing
\* order of "Total", have every column of the table (each row as it was in
\* the table) and the index 0..n-1.
C5_FiltersSortedColumnsKeptIndexReset ==
    FilterResultShape("row_filter") /\ FilterResultShape("nrow_filter")

\* row_filter had to reorder the rows it kept and to renumber them.
C5_Witness ==
    /\ Called("row_filter")
    /\ Called("nrow_filter")
    /\ Len(out["row_filter"].val) >= 2
    /\ out["row_filter"].val[1].Total > out["row_filter"].val[2].Total
    /\ \E i, j \in 1..Len(df) :
           /\ i < j
           /\ Data(df[i]) = Data(out["row_filter"].val[2])
           /\ Data(df[j]) = Data(out["row_filter"].val[1])

\* C6 as stated: filtering the result again returns the identical table.
C6_RowFilterIdempotent ==
    Called("row_filter_again") => out["row_filter_again"] = out["row_filter"]

DistinctTotals(frame) ==
    \A i, j \in 1..Len(frame) : frame[i].Total = frame[j].Total => i = j

\* C6 amended: filtering the result again returns the same table up to the
\* relative order of rows with equal "Total": the same rows as often, the
\* same columns, the same index and the same "Total" in every position; the
\* identical table when no two of its rows have the same "Total".
C6_RowFilterIdempotentUpToTies ==
    Called("row_filter_again") =>
        LET once == out["row_filter"].val
            twice == out["row_filter_again"].val
        IN  /\ out["row_filter_again"].ok
            /\ Len(twice) = Len(once)
            /\ \A i \in 1..Len(once) :
                   /\ DOMAIN twice[i] = DOMAIN once[i]
                   /\ twice[i].idx = once[i].idx
                   /\ twice[i].Total = once[i].Total
            /\ \A i \in 1..Len(twice) : \E k \in 1..Len(once) : twice[i] = [once[k] EXCEPT !.idx = i - 1]
            /\ \A k \in 1..Len(once) : \E i \in 1..Len(twice) : twice[i] = [once[k] EXCEPT !.idx = i - 1]
            /\ DistinctTotals(once) => twice = once

\* The first call reordered two rows of different "Total" and the second
\* call returned them as they were.
C6_Witness ==
    /\ Called("row_filter_again")
    /\ Len(out["row_filter_again"].val) = 2
    /\ df[1].Total < df[2].Total
    /\ out["row_filter_again"] = out["row_filter"]

(***************************************************************************)
(* groupby_sum and pivot_table.                                            *)
(***************************************************************************)
RECURSIVE SumOf(_, _)
SumOf(rows, column) ==
    IF rows = <<>> THEN 0 ELSE Head(rows)[column] + SumOf(Tail(rows), column)

MaxOf(rows, column) ==
    CHOOSE m \in {rows[i][column] : i \in 1..Len(rows)} :
        \A i \in 1..Len(rows) : rows[i][column] <= m

\* The aggregation functions pandas knows by the names 'sum' and 'max'.
Aggregate(rows, column, aggfunc) ==
    CASE aggfunc = "sum" -> SumOf(rows, column)
      [] aggfunc = "max" -> MaxOf(rows, column)

\* The rows of a frame none of whose key columns is missing: groupby and
\* pivot_table are called with their default dropna=True, which leaves the
\* other rows out of every group.
WithKeys(frame, keys) ==
    BooleanMask(frame, [i \in 1..Len(frame) |-> \A k \in keys : frame[i][k] # NaN])

KeyOf(row, keys) == [k \in keys |-> row[k]]

\* The lexicographic order of two keys over the key columns in list order.
KeyLess(a, b, key_list) ==
    \E n \in 1..Len(key_list) :
        /\ \A m \in 1..(n - 1) : a[key_list[m]] = b[key_list[m]]
        /\ SortKey(a, key_list[n]) < SortKey(b, key_list[n])

\* The distinct keys in ascending order (groupby's sort=True).
SortedKeys(frame, key_list) ==
    LET keys == {KeyOf(frame[i], Range(key_list)) : i \in 1..Len(frame)}
        n    == Cardinality(keys)
    IN  CHOOSE s \in [1..n -> keys] :
            \A i, j \in 1..n : i < j => KeyLess(s[i], s[j], key_list)

\* df.groupby(group_vars, as_index=False).agg({agg_var: aggfunc})
GroupByAgg(frame, group_vars, agg_var, aggfunc) ==
    LET kept == WithKeys(frame, Range(group_vars))
        keys == SortedKeys(kept, group_vars)
        Members(key) ==
            BooleanMask(kept, [i \in 1..Len(kept) |->
                                  KeyOf(kept[i], Range(group_vars)) = key])
    IN  DataFrame([i \in 1..Len(keys) |->
                      (agg_var :> Aggregate(Members(keys[i]), agg_var, aggfunc)) @@ keys[i]])

\* A plausible slip: another aggregation than the sum.
groupby_sum_max(frame, group_vars, agg_var, sort_var) ==
    IF sort_var \notin Range(group_vars) \cup {agg_var}
    THEN {Raise("KeyError")}
    ELSE {Ok(reset_index(s)) :
             s \in sort_values(GroupByAgg(frame, group_vars, agg_var, "max"), sort_var)}

\* A plausible slip: sorting from lowest to highest.
groupby_sum_ascending(frame, group_vars, agg_var, sort_var) ==
    IF sort_var \notin Range(group_vars) \cup {agg_var}
    THEN {Raise("KeyError")}
    ELSE {Ok(reset_index(s)) :
             s \in sort_values_ascending(
                      GroupByAgg(frame, group_vars, agg_var, "sum"), sort_var)}

\* sort_values raises KeyError for a column the grouped frame does not have.
groupby_sum(frame, group_vars, agg_var, sort_var) ==
    IF sort_var \notin Range(group_vars) \cup {agg_var}
    THEN {Raise("KeyError")}
    ELSE {Ok(reset_index(s)) :
             s \in sort_values(GroupByAgg(frame, group_vars, agg_var, "sum"), sort_var)}

\* A cell of the pivoted table: a number, or the missing-value marker.
Number(n) == [isna |-> FALSE, value |-> n]

NaNCell == [isna |-> TRUE, value |-> 0]

\* df.pivot_table(values, columns, index, aggfunc).reset_index(): one row
\* per row-axis value and one column per col value, both ascending; the
\* row-axis values become the leading column.
PivotAgg(frame, col, x_axis, value, aggfunc) ==
    LET kept == WithKeys(frame, {col, x_axis})
        xs   == SortedKeys(kept, <<x_axis>>)
        cs   == {kept[i][col] : i \in 1..Len(kept)}
        Members(x, c) ==
            BooleanMask(kept, [i \in 1..Len(kept) |->
                                  kept[i][x_axis] = x /\ kept[i][col] = c])
        Cell(x, c) ==
            IF Members(x, c) = <<>>
            THEN NaNCell
            ELSE Number(Aggregate(Members(x, c), value, aggfunc))
    IN  DataFrame([i \in 1..Len(xs) |->
                      xs[i] @@ [c \in cs |-> Cell(xs[i][x_axis], c)]])

\* A plausible slip: another aggregation than the sum.
pivot_table_max(frame, col, x_axis, value) ==
    Ok(PivotAgg(frame, col, x_axis, value, "max"))

pivot_table(frame, col, x_axis, value) ==
    Ok(PivotAgg(frame, col, x_axis, value, "sum"))

(***************************************************************************)
(* The specification of groupby_sum and pivot_table: one call of either on *)
(* a table.                                                                *)
(***************************************************************************)
GroupVarLists == {<<"Sexo">>, <<"Edad">>, <<"Sexo", "Edad">>, <<"Edad", "Sexo">>}

InitGroup ==
    /\ label = <<>>
    /\ df \in InputFrames
    /\ args = NoArgs
    /\ out = NoCalls

CallGroupbySum ==
    /\ out = NoCalls
    /\ \E group_vars \in GroupVarLists : \E sort_var \in {"Sexo", "Edad", "Total"} :
           /\ args' = [group_vars |-> group_vars, agg_var |-> "Total",
                       sort_var |-> sort_var]
           /\ \E r \in groupby_sum(df, group_vars, "Total", sort_var) :
                  out' = Record("groupby_sum", r)
    /\ UNCHANGED <<label, df>>

CallPivotTable ==
    /\ out = NoCalls
    /\ \E col \in {"Sexo", "Edad"} : \E x_axis \in {"Sexo", "Edad"} \ {col} :
           /\ args' = [col |-> col, x_axis |-> x_axis, value |-> "Total"]
           /\ out' = Record("pivot_table", pivot_table(df, col, x_axis, "Total"))
    /\ UNCHANGED <<label, df>>

NextGroup == CallGroupbySum \/ CallPivotTable

SpecGroup == InitGroup /\ [][NextGroup]_vars

(***************************************************************************)
(* Claims about groupby_sum.                                               *)
(***************************************************************************)
Indices(frame) == 1..Len(frame)

\* The sum of a column over the rows of a frame at the positions in P.
RECURSIVE SumAt(_, _, _)
SumAt(frame, column, P) ==
    IF P = {} THEN 0
    ELSE LET i == CHOOSE k \in P : TRUE
         IN  frame[i][column] + SumAt(frame, column, P \ {i})

Defined(row, keys) == \A k \in keys : row[k] # NaN

GroupbySumReturned ==
    Called("groupby_sum") /\ out["groupby_sum"].ok

\* C2 as stated: the aggregation column sums to the same over the result
\* and over all rows of the table, rows with a missing grouping value
\* included.
C2_GroupbySumKeepsTotal ==
    GroupbySumReturned =>
        SumAt(out["groupby_sum"].val, args.agg_var, Indices(out["groupby_sum"].val))
            = SumAt(df, args.agg_var, Indices(df))

\* C2 amended: the aggregation column sums to the same over the result and
\* over the rows of the table that have a value in every grouping column.
C2_GroupbySumKeepsTotalOfKeyedRows ==
    GroupbySumReturned =>
        SumAt(out["groupby_sum"].val, args.agg_var, Indices(out["groupby_sum"].val))
            = SumAt(df, args.agg_var,
                    {i \in Indices(df) : Defined(df[i], Range(args.group_vars))})

\* Two rows of the table were added up into one group.
C2_Witness ==
    /\ GroupbySumReturned
    /\ Len(df) = 2
    /\ Len(out["groupby_sum"].val) = 1
    /\ out["groupby_sum"].val[1].Total = df[1].Total + df[2].Total

PivotReturned == Called("pivot_table") /\ out["pivot_table"].ok

CellColumns(row) == ColumnsOf(row) \ {args.x_axis}

\* The sum of the cells of a pivoted row that are not missing.
RECURSIVE SumCells(_, _)
SumCells(row, C) ==
    IF C = {} THEN 0
    ELSE LET c == CHOOSE k \in C : TRUE
         IN  (IF row[c].isna THEN 0 ELSE row[c].value) + SumCells(row, C \ {c})

RECURSIVE SumPivot(_)
SumPivot(frame) ==
    IF frame = <<>> THEN 0
    ELSE SumCells(Head(frame), CellColumns(Head(frame))) + SumPivot(Tail(frame))

\* The pivoted table is that of the rows of the table at the positions P:
\* its cells sum to their values, it has a row per row-axis value and a
\* column per col value of theirs, and a cell is missing exactly when none
\* of them has its pair of values.
PivotOf(P) ==
    LET res == out["pivot_table"].val
    IN  /\ SumPivot(res) = SumAt(df, args.value, P)
        /\ Len(res) = Cardinality({df[k][args.x_axis] : k \in P})
        /\ \A k \in P : \E i \in Indices(res) : res[i][args.x_axis] = df[k][args.x_axis]
        /\ \A i \in Indices(res) :
               /\ CellColumns(res[i]) = {df[k][args.col] : k \in P}
               /\ \A c \in CellColumns(res[i]) :
                      res[i][c].isna <=>
                          ~\E k \in P : /\ df[k][args.x_axis] = res[i][args.x_axis]
                                        /\ df[k][args.col] = c

\* C4 as stated: the non-missing cells sum to the value column over all
\* rows of the table; there is one row per distinct x_axis value and one
\* column per distinct col value of the table's rows; a cell is missing
\* exactly when no row of the table has its pair.
C4_PivotKeepsTotal ==
    PivotReturned => PivotOf(Indices(df))

\* C4 amended: the same, of the rows of the table that have a value in both
\* the col and the x_axis column.
C4_PivotKeepsTotalOfKeyedRows ==
    PivotReturned =>
        PivotOf({k \in Indices(df) : Defined(df[k], {args.col, args.x_axis})})

\* A pivoted table of two rows and two columns with missing cells.
C4_Witness ==
    /\ PivotReturned
    /\ Len(out["pivot_table"].val) = 2
    /\ \E c \in CellColumns(out["pivot_table"].val[1]) :
           /\ out["pivot_table"].val[1][c].isna
           /\ ~out["pivot_table"].val[2][c].isna

(***************************************************************************)
(* cat_var.                                                                *)
(***************************************************************************)
\* Series.unique(): the values in order of first appearance, a missing
\* value among them.
RECURSIVE Unique(_)
Unique(values) ==
    IF values = <<>> THEN <<>>
    ELSE LET front == Unique(SubSeq(values, 1, Len(values) - 1))
             last  == values[Len(values)]
         IN  IF last \in Range(front) THEN front ELSE Append(front, last)

Column(frame, col) == [i \in 1..Len(frame) |-> frame[i][col]]

\* The list of dictionaries the loop builds, one per column of cols.
CatList(frame, cols) ==
    [i \in 1..Len(cols) |->
        LET cat == Unique(Column(frame, cols[i]))
        IN  [categorical_variable |-> cols[i],
             number_of_possible_values |-> Len(cat),
             values |-> cat]]

\* A plausible slip: sorting from lowest to highest.
cat_var_ascending(frame, cols) ==
    IF CatList(frame, cols) = <<>>
    THEN {Raise("KeyError")}
    ELSE {Ok(reset_index(s)) :
             s \in sort_values_ascending(DataFrame(CatList(frame, cols)),
                                         "number_of_possible_values")}

\* pd.DataFrame([]) has no columns: sort_values raises KeyError for the
\* column "number_of_possible_values".
cat_var(frame, cols) ==
    IF CatList(frame, cols) = <<>>
    THEN {Raise("KeyError")}
    ELSE {Ok(reset_index(s)) :
             s \in sort_values(DataFrame(CatList(frame, cols)),
                               "number_of_possible_values")}

(***************************************************************************)
(* The specification of cat_var: one call on a table with a list of        *)
(* different categorical variables of the table.                           *)
(***************************************************************************)
CategoricalVariables == {"Sexo", "Edad"}

ColumnLists ==
    {cols \in UNION {[1..n -> CategoricalVariables] :
                        n \in 0..Cardinality(CategoricalVariables)} :
        \A i, j \in 1..Len(cols) : cols[i] = cols[j] => i = j}

InitCat ==
    /\ label = <<>>
    /\ df \in InputFrames
    /\ args = NoArgs
    /\ out = NoCalls

CallCatVar ==
    /\ out = NoCalls
    /\ \E cols \in ColumnLists :
           /\ args' = [cols |-> cols]
           /\ \E r \in cat_var(df, cols) : out' = Record("cat_var", r)
    /\ UNCHANGED <<label, df>>

NextCat == CallCatVar

SpecCat == InitCat /\ [][NextCat]_vars

(***************************************************************************)
(* Claims about cat_var.                                                   *)
(***************************************************************************)
PositionIn(cols, col) == CHOOSE k \in 1..Len(cols) : cols[k] = col

ValuesOf(col) == {df[k][col] : k \in Indices(df)}

FirstAt(col, v) ==
    CHOOSE k \in Indices(df) :
        df[k][col] = v /\ \A m \in 1..(k - 1) : df[m][col] # v

\* The summary of the columns of the call: a row per column, each with the
\* number of the column's distinct values (a missing value counts as one)
\* and the list of these in order of first occurrence, in non-increasing
\* order of that number.
SummaryOfColumns ==
    LET res == out["cat_var"].val
    IN  /\ out["cat_var"].ok
        /\ Len(res) = Len(args.cols)
        /\ \A c \in Range(args.cols) :
               \E i \in Indices(res) : res[i].categorical_variable = c
        /\ \A i \in Indices(res) :
               LET c == res[i].categorical_variable
                   vs == res[i].values
               IN  /\ c \in Range(args.cols)
                   /\ res[i].number_of_possible_values = Cardinality(ValuesOf(c))
                   /\ Len(vs) = Cardinality(ValuesOf(c))
                   /\ Range(vs) = ValuesOf(c)
                   /\ \A a, b \in 1..Len(vs) :
                          a < b => FirstAt(c, vs[a]) < FirstAt(c, vs[b])
        /\ \A i \in 1..(Len(res) - 1) :
               res[i].number_of_possible_values >= res[i + 1].number_of_possible_values

TiesInListOrder ==
    LET res == out["cat_var"].val
    IN  \A i, j \in Indices(res) :
            (i < j /\ res[i].number_of_possible_values = res[j].number_of_possible_values)
                => PositionIn(args.cols, res[i].categorical_variable)
                       < PositionIn(args.cols, res[j].categorical_variable)

\* C7 as stated: for every list of columns, the empty list included,
\* cat_var returns the summary of the columns with the columns of equal
\* cardinality in the order of the list.
C7_CatVarSummaryStable ==
    Called("cat_var") => (SummaryOfColumns /\ TiesInListOrder)

\* C7 amended: for a non-empty list of columns cat_var returns the summary
\* of the columns, sorted by non-increasing cardinality, the order among
\* columns of equal cardinality left open; for the empty list it raises
\* KeyError.
C7_CatVarSummary ==
    Called("cat_var") =>
        IF args.cols = <<>>
        THEN out["cat_var"] = Raise("KeyError")
        ELSE SummaryOfColumns

\* Two columns of different cardinalities, one with a missing value, were
\* summarised and came out in the opposite of the order of the list.
C7_Witness ==
    /\ Called("cat_var")
    /\ out["cat_var"].ok
    /\ Len(out["cat_var"].val) = 2
    /\ out["cat_var"].val[1].number_of_possible_values
           > out["cat_var"].val[2].number_of_possible_values
    /\ out["cat_var"].val[1].categorical_variable = args.cols[2]
    /\ NaN \in ValuesOf("Sexo")

=============================================================================
